---- MODULE Spec2Model ----
(***************************************************************************)
(* Content-addressable chunked file storage of CALibrary.                  *)
(*                                                                         *)
(* The Telegram bot handler of src/tasks/file.ts (initFileBot) ingests a   *)
(* document: it downloads it, stages it under storage/temp, splits it in   *)
(* CHUNK_SIZE pieces, writes each piece under a path derived from its      *)
(* SHA-256 digest, and creates the File row with its FileChunk rows.  The  *)
(* HTTP controllers read the catalog (IndexController.file), serve a chunk *)
(* (IndexController.chunk) and delete a file (AdminController.deleteFile). *)
(* The login endpoints of AuthController issue a JWT in a cookie, and      *)
(* authMiddleware admits a request to the /admin routes that list it.      *)
(*                                                                         *)
(* JavaScript runs one turn at a time: an action of this model is the code *)
(* between two awaits.  Sizes are scaled: one unit stands for 2.5 MiB, so  *)
(* CHUNK_SIZE (5 MiB in the source) is 2.                                  *)
(***************************************************************************)
EXTENDS Integers, Sequences, FiniteSets, TLC

\* ------------------------------------------------------------------ bounds

\* Number of document updates the bot receives.
MaxAttempts == 2

\* Largest number of bytes Telegram serves for a document.
MaxLen == 5

\* Number of PUT /admin/file/:id requests.
MaxRequests == 2

\* src/tasks/file.ts:13  const CHUNK_SIZE = 5 * 1024 * 1024 (scaled, see above)
CHUNK_SIZE == 2

Attempts == 1 .. MaxAttempts

\* File ids are cuids, unique per created row: the id of the row an attempt
\* creates is the attempt's number.
FileIds == Attempts

\* The bytes a download can return: the prefixes of 1,2,3,1,2,3,...  Bytes
\* differ inside a chunk and across neighbouring chunks, and two downloads
\* share their leading chunks.
Body(n) == [i \in 1 .. n |-> ((i - 1) % 3) + 1]
Bodies == {Body(n) : n \in 0 .. MaxLen}

\* document.file_size as Telegram declares it (optional: absent reads as 0).
DeclaredSizes == 0 .. (MaxLen + 1)

\* The downloads Telegram can serve for a declared size: the declared number
\* of bytes, one less or one more; any number when the size was not declared.
Served(file_size) ==
    {b \in Bodies : file_size = 0 \/ Len(b) - file_size \in {-1, 0, 1}}

\* document.file_name, a string of characters; NoName is an absent file_name.
NoName == <<>>
DocNames == {<<"b", ".", "P", "D", "F">>, NoName}
UnknownFile == <<"u", "n", "k", "n", "o", "w", "n", "_", "f", "i", "l", "e">>

\* ---------------------------------------------------------- pure functions

Min(a, b) == IF a < b THEN a ELSE b

\* Buffer.subarray(start, end) and String.substring(start, end): 0-based,
\* end exclusive, both clamped to the length.
subarray(buf, start, end) ==
    LET s == Min(start, Len(buf))
        e == Min(end, Len(buf))
    IN  IF e <= s THEN <<>> ELSE SubSeq(buf, s + 1, e)

substring(str, start, end) == subarray(str, start, end)

\* createHash('sha256').update(bytes).digest('hex'): a fixed-width digest,
\* different for different byte sequences (no collisions): the length, the
\* bytes, then padding.
DigestLen == MaxLen + 1
sha256(bytes) ==
    <<Len(bytes)>> \o bytes \o [i \in 1 .. (DigestLen - 1 - Len(bytes)) |-> 0]

\* The inverse of sha256 (used by properties only).
preimage(digest) == SubSeq(digest, 2, 1 + digest[1])

\* calculateHash(filePath): the digest of the file's bytes.
calculateHash(fs, filePath) == sha256(fs[filePath])

\* The second shard taken one character short.
getStoragePathFromHashShort(hash) ==
    [dir1 |-> substring(hash, 0, 2), dir2 |-> substring(hash, 2, 3)]

\* The storage root: process.env.STORAGE_PATH || path.join(process.cwd(),
\* 'storage'), as src/tasks/file.ts computes it when the module loads and as
\* IndexController.chunk computes it on every request ("" is an unset or
\* empty variable).
StoragePathEnvs == {"", "/data"}
storagePath(env) == IF env = "" THEN "cwd/storage" ELSE env
storagePathOnRead(env) == IF env = "" THEN "cwd/storage" ELSE env

\* getStoragePathFromHash(hash): the shard directory, relative to storagePath.
getStoragePathFromHash(hash) ==
    [dir1 |-> substring(hash, 0, 2), dir2 |-> substring(hash, 2, 4)]

\* path.join(chunkDir, `${chunkHash}.chk`) in processFileChunks.
chunkPathOf(chunkHash) ==
    LET chunkDir == getStoragePathFromHash(chunkHash)
    IN  [dir1 |-> chunkDir.dir1, dir2 |-> chunkDir.dir2,
         file |-> chunkHash, ext |-> "chk"]

\* path.join(tempDir, fileName) in initFileBot.
tempFilePathOf(fileName) == [dir |-> "temp", file |-> fileName]

\* A file system as a function from the paths that exist to their bytes.
Put(fs, p, bytes) ==
    [q \in (DOMAIN fs) \cup {p} |-> IF q = p THEN bytes ELSE fs[q]]

Remove(fs, p) == [q \in (DOMAIN fs) \ {p} |-> fs[q]]

\* fs.writeFileSync that throws: the open failed (nothing changed) or a write
\* failed after the file was truncated (a proper prefix is left).
FailedWrite(fs, p, bytes) ==
    {fs} \cup {Put(fs, p, SubSeq(bytes, 1, n)) : n \in 0 .. (Len(bytes) - 1)}

\* ------------------------------------------------------------ the chunker

\* The count rounded down instead of up.
totalChunksFloor(fileSize) == fileSize \div CHUNK_SIZE

\* Math.ceil(fileSize / CHUNK_SIZE) in processFileChunks.
totalChunksOf(fileSize) == (fileSize + CHUNK_SIZE - 1) \div CHUNK_SIZE

\* fileBuffer.subarray(start, end) for chunk i of the loop (i from 0).
chunkBufferOf(fileBuffer, fileSize, i) ==
    LET start == i * CHUNK_SIZE
        end == Min(start + CHUNK_SIZE, fileSize)
    IN  subarray(fileBuffer, start, end)

\* The entry chunks.push(...) adds for chunk i.
chunkEntry(fileBuffer, fileSize, i) ==
    LET chunkBuffer == chunkBufferOf(fileBuffer, fileSize, i)
    IN  [chunk |-> i, hash |-> sha256(chunkBuffer), size |-> Len(chunkBuffer)]

\* The chunks array after n rounds of the loop.
chunksAfter(fileBuffer, fileSize, n) ==
    [j \in 1 .. n |-> chunkEntry(fileBuffer, fileSize, j - 1)]

\* fs.ensureDirSync(chunkDir) of the first n rounds.
dirsAfter(dirSet, fileBuffer, fileSize, n) ==
    dirSet \cup {getStoragePathFromHash(chunkEntry(fileBuffer, fileSize, j).hash) :
                    j \in 0 .. (n - 1)}

\* The write of the final round left out.
writeChunkNotLast(store, fileBuffer, fileSize, i) ==
    IF i = totalChunksOf(fileSize) - 1 THEN store
    ELSE Put(store, chunkPathOf(chunkEntry(fileBuffer, fileSize, i).hash),
             chunkBufferOf(fileBuffer, fileSize, i))

\* The put of round i appending to a blob that exists (flag 'a').
writeChunkAppend(store, fileBuffer, fileSize, i) ==
    LET chunkPath == chunkPathOf(chunkEntry(fileBuffer, fileSize, i).hash)
        old == IF chunkPath \in DOMAIN store THEN store[chunkPath] ELSE <<>>
    IN  Put(store, chunkPath, old \o chunkBufferOf(fileBuffer, fileSize, i))

\* fs.writeFileSync(chunkPath, chunkBuffer) of round i.
writeChunk(store, fileBuffer, fileSize, i) ==
    Put(store, chunkPathOf(chunkEntry(fileBuffer, fileSize, i).hash),
        chunkBufferOf(fileBuffer, fileSize, i))

\* The blob store after the first n rounds of the loop, in index order.
RECURSIVE blobsAfter(_, _, _, _)
blobsAfter(store, fileBuffer, fileSize, n) ==
    IF n = 0 THEN store
    ELSE writeChunk(blobsAfter(store, fileBuffer, fileSize, n - 1),
                    fileBuffer, fileSize, n - 1)

\* A put that refuses a path that already exists (flag 'wx').
writeFileSyncExclusive(store, chunkPath) == chunkPath \notin DOMAIN store

\* fs.ensureDirSync(chunkDir) is mkdir -p: a directory that already exists is
\* no error.
ensureDirSyncAccepts(dirSet, chunkDir) == TRUE

\* fs.writeFileSync(chunkPath, chunkBuffer) opens with the default flag 'w'
\* (create or truncate): a file that already exists is no error.
writeFileSyncAccepts(store, chunkPath) == TRUE

\* Rounds 0 .. n-1 of the loop are not refused by what the storage root
\* already holds, each round seeing what the rounds before it wrote.
roundsAccepted(dirSet, store, fileBuffer, fileSize, n) ==
    \A j \in 0 .. (n - 1) :
        /\ ensureDirSyncAccepts(
               dirsAfter(dirSet, fileBuffer, fileSize, j),
               getStoragePathFromHash(chunkEntry(fileBuffer, fileSize, j).hash))
        /\ writeFileSyncAccepts(
               blobsAfter(store, fileBuffer, fileSize, j),
               chunkPathOf(chunkEntry(fileBuffer, fileSize, j).hash))

\* path.extname(fileName): from the last dot on; empty when there is no dot
\* or the name only starts with one.
lastDot(name) ==
    LET dots == {i \in 1 .. Len(name) : name[i] = "."}
    IN  IF dots = {} THEN 0 ELSE CHOOSE i \in dots : \A j \in dots : j <= i

extname(name) ==
    IF lastDot(name) <= 1 THEN <<>> ELSE SubSeq(name, lastDot(name), Len(name))

lowerChar(c) ==
    CASE c = "P" -> "p" [] c = "D" -> "d" [] c = "F" -> "f" [] c = "E" -> "e"
      [] c = "U" -> "u" [] c = "B" -> "b" [] OTHER -> c

toLowerCase(str) == [i \in 1 .. Len(str) |-> lowerChar(str[i])]

\* The extension compared as it is written, without toLowerCase().
determineFileFormatCaseSensitive(fileName) ==
    LET ext == extname(fileName)
    IN  IF ext = <<".", "p", "d", "f">> THEN "PDF"
        ELSE IF ext = <<".", "e", "p", "u", "b">> THEN "EPUB"
        ELSE "TXT"

\* determineFileFormat(fileName)
determineFileFormat(fileName) ==
    LET ext == toLowerCase(extname(fileName))
    IN  IF ext = <<".", "p", "d", "f">> THEN "PDF"
        ELSE IF ext = <<".", "e", "p", "u", "b">> THEN "EPUB"
        ELSE "TXT"

\* ------------------------------------------------------------------- state

VARIABLES
    pc,          \* pc[a]: where the handler of update a stands (which await)
    frame,       \* frame[a]: the handler's locals
    replies,     \* replies[a]: the ctx.reply messages the handler delivered
    botRunning,  \* the long-polling loop of bot.start() is alive
    temp,        \* storage/temp: staging path -> bytes
    dirs,        \* the shard directories that exist under the storage root
    blobs,       \* the blob store: chunk path -> bytes
    files,       \* the File table
    fileChunks,  \* the FileChunk table
    delPending,  \* ids of deleteFile requests between their two queries
    served,      \* the last GET /chunk/:id request and the response it got
    upd,         \* upd[r]: where the updateFileMeta handler of request r stands
    from,        \* from[a]: ctx.from?.username of update a ("" when absent)
    processEnv,  \* process.env: the admin list variables as the process read them
    now,         \* Math.floor(Date.now() / 1000)
    cookies,     \* the browser's cookie jar for this site
    http         \* the auth or /admin request answered by the last step

\* What only the authentication handlers and the clock write.
authVars == <<from, processEnv, now, cookies, http>>

vars == <<pc, frame, replies, botRunning, temp, dirs, blobs, files, fileChunks,
          delPending, served, upd, from, processEnv,
          now, cookies, http>>

Terminal == {"Ignored", "Committed", "Failed", "Crashed"}

\* No GET /chunk/:id request was served yet.
NoRequest ==
    [id |-> <<>>, ioThrows |-> FALSE,
     response |-> [ok |-> FALSE, status |-> "none", message |-> ""]]

\* The locals of a handler that has not started, or has returned.
BlankFrame ==
    [fileName |-> <<>>, fileSize |-> 0, fileBuffer |-> <<>>, fileHash |-> <<>>,
     chunks |-> <<>>, staged |-> FALSE, rounds |-> 0, failedChunk |-> -1,
     fileRecordId |-> 0]

\* The PUT /admin/file/:id requests, and a request that has not arrived.
Requests == 1 .. MaxRequests

NoData == [bookId |-> "undefined", desc |-> "undefined", extra |-> FALSE]

NoUpdate ==
    [pc |-> "Idle", fileId |-> 0, data |-> NoData, bookId |-> "null",
     response |-> "none"]

\* ---------------------------------------- authentication: values and checks

\* Strings that are split or compared are sequences of characters; a field that
\* is absent from a JSON body or from a token's payload is Undefined.
Undefined == <<"undefined">>

\* The user names of the model: an administrator, somebody else, the empty
\* string, and no user name at all.
Usernames == {<<"a">>, <<"m">>, <<>>}

\* The values of process.processEnv.TELEGRAM_ADMIN_USERS and GITHUB_ADMIN_USERS
\* (unset reads as '' through "|| ''"): unset, one name, one name and a
\* trailing comma.
TelegramEnvs == {<<>>, <<"a">>, <<"a", ",">>}
GithubEnvs == {<<>>, <<"a">>}

\* String.prototype.split(sep): the pieces between the separators; a string
\* without separator, the empty one included, gives one piece.
RECURSIVE split(_, _)
split(str, sep) ==
    IF \A i \in 1 .. Len(str) : str[i] # sep
    THEN <<str>>
    ELSE LET i == CHOOSE j \in 1 .. Len(str) :
                      str[j] = sep /\ \A k \in 1 .. (j - 1) : str[k] # sep
         IN  <<SubSeq(str, 1, i - 1)>> \o split(SubSeq(str, i + 1, Len(str)), sep)

\* Array.prototype.filter((u) => u): the pieces that are not empty.
filterTruthy(list) == SelectSeq(list, LAMBDA u : u # <<>>)

\* Array.prototype.includes.
includes(list, x) == \E i \in 1 .. Len(list) : list[i] = x

\* middleware/auth.ts: the admin lists, read when the module loads.
TELEGRAM_ADMIN_USERS == filterTruthy(split(processEnv.TELEGRAM_ADMIN_USERS, ","))
GITHUB_ADMIN_USERS == filterTruthy(split(processEnv.GITHUB_ADMIN_USERS, ","))

\* controllers/auth.ts: its own copies of the lists; the Telegram one is split
\* and not filtered.
AuthController_TELEGRAM_ADMIN_USERS == split(processEnv.TELEGRAM_ADMIN_USERS, ",")
AuthController_GITHUB_ADMIN_USERS ==
    filterTruthy(split(processEnv.GITHUB_ADMIN_USERS, ","))

\* The clock counts seconds and moves a day at a time.
Day == 24 * 60 * 60
MaxDay == 9

\* controllers/auth.ts line 26.
TOKEN_EXPIRE_TIME == 7 * 24 * 60 * 60

\* middleware/auth.ts line 83: the maxAge of refreshAuthCookie.
REFRESH_MAX_AGE == 7 * 24 * 60 * 60

\* A JWT: the payload fields the code reads, and whether its signature was
\* made with jwtSecret.  sub and provider are "" and exp is 0 when absent.
\* NoToken: the request has no auth_token cookie.
NoToken ==
    [sub |-> "", provider |-> "", username |-> Undefined, exp |-> 0,
     sig |-> "none"]

\* hono/jwt verify, as verifyJwtToken calls it: it throws for a signature that
\* was not made with the secret and for a payload whose exp has passed.
verifyThrows(token) ==
    \/ token.sig # "ok"
    \/ token.exp # 0 /\ token.exp <= now

\* Lines 26-28.
isTokenExpired(payload) == payload.exp # 0 /\ payload.exp < now

\* Lines 33-35: !!(payload.sub && payload.provider && payload.username).
validateTokenStructure(payload) ==
    /\ payload.sub # ""
    /\ payload.provider # ""
    /\ payload.username \notin {Undefined, <<>>}

\* An admin check that admits every provider it does not know.
isUserAdminByDefault(provider, username) ==
    CASE provider \in {"telegram", "telegram-widget"} ->
            includes(TELEGRAM_ADMIN_USERS, username)
      [] provider = "github" -> includes(GITHUB_ADMIN_USERS, username)
      [] OTHER -> TRUE

\* Lines 40-50.
isUserAdmin(provider, username) ==
    CASE provider \in {"telegram", "telegram-widget"} ->
            includes(TELEGRAM_ADMIN_USERS, username)
      [] provider = "github" -> includes(GITHUB_ADMIN_USERS, username)
      [] OTHER -> FALSE

\* controllers/auth.ts lines 54-64.
checkAdminPermission(provider, username) ==
    CASE provider \in {"telegram", "telegram-widget"} ->
            includes(AuthController_TELEGRAM_ADMIN_USERS, username)
      [] provider = "github" ->
            includes(AuthController_GITHUB_ADMIN_USERS, username)
      [] OTHER -> FALSE

\* Lines 44-49: createJwtToken adds exp to the payload and signs it.
createJwtToken(userPayload) ==
    [sub |-> userPayload.sub, provider |-> userPayload.provider,
     username |-> userPayload.username, exp |-> now + TOKEN_EXPIRE_TIME,
     sig |-> "ok"]

\* The jar without cookies of this site.
NoCookies ==
    [auth_token |-> NoToken, auth_expires |-> 0, github_oauth_state |-> 0]

\* No auth or /admin request was answered by the last step.
NoHttp ==
    [endpoint |-> "none", handler |-> "none", token |-> NoToken,
     status |-> "none", next |-> FALSE, setCookie |-> "none",
     issued |-> NoToken, state |-> 0, stored |-> 0, exchanged |-> FALSE]

\* ctx.from?.username of the updates, the configuration and the browser while
\* nobody logs in or calls /admin.
InitAuth ==
    /\ from = [a \in Attempts |-> <<"a">>]
    /\ processEnv = [TELEGRAM_ADMIN_USERS |-> <<"a">>, GITHUB_ADMIN_USERS |-> <<"a">>]
    /\ now = 0
    /\ cookies = NoCookies
    /\ http = NoHttp

Init ==
    /\ pc = [a \in Attempts |-> "Idle"]
    /\ frame = [a \in Attempts |-> BlankFrame]
    /\ replies = [a \in Attempts |-> <<>>]
    /\ botRunning = TRUE
    /\ temp = <<>>
    /\ dirs = {}
    /\ blobs = <<>>
    /\ files = {}
    /\ fileChunks = {}
    /\ delPending = {}
    /\ served = NoRequest
    /\ upd = [r \in Requests |-> NoUpdate]
    /\ InitAuth

\* ------------------------------------------------- the bot's file handler

\* Every update handed to the handler as it arrives, while others still run.
CanDispatchConcurrently(a) == TRUE

\* bot.start(): grammY's long polling hands the updates to the handler one at
\* a time, the next one after the handler's promise of the previous settled.
CanDispatch(a) ==
    \A b \in Attempts \ {a} : pc[b] = "Idle" \/ pc[b] \in Terminal

\* The catch block: it logs and awaits ctx.reply (error while processing).
Caught(a) == pc' = [pc EXCEPT ![a] = "ReplyErr"]

\* The locals of the handlers that returned are gone when the next one starts
\* (so are, in this model, the replies they sent).
Disposed(fr) ==
    [b \in Attempts |-> IF pc[b] \in Terminal THEN BlankFrame ELSE fr[b]]

\* Lines 26-41: a ':document' update arrives; the handler reads the document's
\* name and declared size and awaits its first reply.  An update without
\* ctx.message (a channel post) returns at once.
Receive(a) ==
    /\ botRunning
    /\ pc[a] = "Idle"
    /\ \A b \in Attempts : b < a => pc[b] # "Idle"
    /\ CanDispatch(a)
    /\ \E hasMessage \in BOOLEAN, file_name \in DocNames, file_size \in DeclaredSizes :
          IF hasMessage
          THEN /\ pc' = [pc EXCEPT ![a] = "Reply1"]
               /\ frame' = [Disposed(frame) EXCEPT ![a] =
                      [BlankFrame EXCEPT
                          !.fileName = IF file_name = NoName THEN UnknownFile
                                       ELSE file_name,
                          !.fileSize = file_size]]
          ELSE /\ pc' = [pc EXCEPT ![a] = "Ignored"]
               /\ frame' = Disposed(frame)
    /\ replies' = [b \in Attempts |->
                      IF pc[b] \in Terminal THEN <<>> ELSE replies[b]]
    /\ UNCHANGED <<botRunning, temp, dirs, blobs, files, fileChunks, delPending,
                   served, upd,
                   authVars>>

\* Line 41: the first await ctx.reply (file received).
Reply1(a) ==
    /\ pc[a] = "Reply1"
    /\ \E ok \in BOOLEAN :
          IF ok
          THEN /\ replies' = [replies EXCEPT ![a] = Append(@, "received")]
               /\ pc' = [pc EXCEPT ![a] = "GetFile"]
          ELSE /\ Caught(a)
               /\ UNCHANGED replies
    /\ UNCHANGED <<frame, botRunning, temp, dirs, blobs, files, fileChunks,
                   delPending,
                   served, upd,
                   authVars>>

\* Line 44: await ctx.api.getFile(fileId).
GetFile(a) ==
    /\ pc[a] = "GetFile"
    /\ \E ok \in BOOLEAN :
          IF ok THEN pc' = [pc EXCEPT ![a] = "Fetch"] ELSE Caught(a)
    /\ UNCHANGED <<frame, replies, botRunning, temp, dirs, blobs, files,
                   fileChunks, delPending,
                   served, upd,
                   authVars>>

\* Lines 56-68: await fetch(fileUrl); a response that is not ok throws.
Fetch(a) ==
    /\ pc[a] = "Fetch"
    /\ \E response \in {"ok", "notOk", "rejected"} :
          IF response = "ok" THEN pc' = [pc EXCEPT ![a] = "Body"] ELSE Caught(a)
    /\ UNCHANGED <<frame, replies, botRunning, temp, dirs, blobs, files,
                   fileChunks, delPending,
                   served, upd,
                   authVars>>

\* The error of a chunk's put swallowed: the handler goes on to the create.
onChunkWriteErrorSwallowed == "Persisting"

\* Where the handler goes when the put of a chunk throws: processFileChunks has
\* no try, so its promise rejects and the handler's catch block runs.
onChunkWriteError == "ReplyErr"

\* Lines 70-80, one turn (no await between them; the body of
\* processFileChunks has no await either): the download's bytes arrive, are
\* written to the staging path, hashed, and cut into chunks that are written
\* to the blob store round by round.  Every file system call may throw.
StageAndProcess(a) ==
    /\ pc[a] = "Body"
    /\ \E bytes \in Served(frame[a].fileSize) :
        LET tempFilePath == tempFilePathOf(frame[a].fileName)
            fileSize == frame[a].fileSize
            staged == Put(temp, tempFilePath, bytes)
            fileHash == calculateHash(staged, tempFilePath)
            fileBuffer == staged[tempFilePath]
            totalChunks == totalChunksOf(fileSize)
        IN
        \/ \* response.arrayBuffer() rejects
           /\ Caught(a)
           /\ UNCHANGED <<frame, temp, dirs, blobs>>
        \/ \* fs.writeFileSync(tempFilePath, fileBuffer) throws
           /\ temp' \in FailedWrite(temp, tempFilePath, bytes)
           /\ Caught(a)
           /\ UNCHANGED <<frame, dirs, blobs>>
        \/ \* readFileSync throws in calculateHash or in processFileChunks
           /\ temp' = staged
           /\ frame' = [frame EXCEPT ![a].staged = TRUE]
           /\ Caught(a)
           /\ UNCHANGED <<dirs, blobs>>
        \/ \* round k: fs.ensureDirSync(chunkDir) throws
           \E k \in 0 .. (totalChunks - 1) :
              /\ roundsAccepted(dirs, blobs, fileBuffer, fileSize, k)
              /\ temp' = staged
              /\ dirs' = dirsAfter(dirs, fileBuffer, fileSize, k)
              /\ blobs' = blobsAfter(blobs, fileBuffer, fileSize, k)
              /\ frame' = [frame EXCEPT ![a].staged = TRUE,
                                        ![a].fileBuffer = fileBuffer,
                                        ![a].fileHash = fileHash,
                                        ![a].rounds = k,
                                        ![a].failedChunk = k]
              /\ pc' = [pc EXCEPT ![a] = onChunkWriteError]
        \/ \* round k: fs.writeFileSync(chunkPath, chunkBuffer) throws
           \E k \in 0 .. (totalChunks - 1) :
              /\ roundsAccepted(dirs, blobs, fileBuffer, fileSize, k)
              /\ temp' = staged
              /\ dirs' = dirsAfter(dirs, fileBuffer, fileSize, k + 1)
              /\ blobs' \in FailedWrite(
                               blobsAfter(blobs, fileBuffer, fileSize, k),
                               chunkPathOf(chunkEntry(fileBuffer, fileSize, k).hash),
                               chunkBufferOf(fileBuffer, fileSize, k))
              /\ frame' = [frame EXCEPT ![a].staged = TRUE,
                                        ![a].fileBuffer = fileBuffer,
                                        ![a].fileHash = fileHash,
                                        ![a].rounds = k,
                                        ![a].failedChunk = k]
              /\ pc' = [pc EXCEPT ![a] = onChunkWriteError]
        \/ \* every round succeeds; line 86 issues prisma.file.create
           /\ roundsAccepted(dirs, blobs, fileBuffer, fileSize, totalChunks)
           /\ temp' = staged
           /\ dirs' = dirsAfter(dirs, fileBuffer, fileSize, totalChunks)
           /\ blobs' = blobsAfter(blobs, fileBuffer, fileSize, totalChunks)
           /\ frame' = [frame EXCEPT
                           ![a].staged = TRUE,
                           ![a].fileBuffer = fileBuffer,
                           ![a].fileHash = fileHash,
                           ![a].rounds = totalChunks,
                           ![a].chunks = chunksAfter(fileBuffer, fileSize, totalChunks)]
           /\ pc' = [pc EXCEPT ![a] = "Persisting"]
    /\ UNCHANGED <<replies, botRunning, files, fileChunks, delPending,
                   served, upd,
                   authVars>>

\* The File row of prisma.file.create (lines 87-99) for handler a.
fileRow(a) ==
    [id |-> a,
     format |-> determineFileFormat(frame[a].fileName),
     size |-> frame[a].fileSize,
     desc |-> "",
     hash |-> frame[a].fileHash,
     filename |-> frame[a].fileName,
     bookId |-> "null",
     chunks |-> Len(frame[a].chunks)]

\* The FileChunk rows of the nested create (FileChunks: { create: chunks }).
chunkRows(a) ==
    {[id |-> <<a, frame[a].chunks[j].chunk>>,
      fileId |-> a,
      chunk |-> frame[a].chunks[j].chunk,
      hash |-> frame[a].chunks[j].hash,
      size |-> frame[a].chunks[j].size] : j \in 1 .. Len(frame[a].chunks)}

\* Lines 86-100: prisma.file.create with its nested FileChunks create is one
\* transaction of the database: the row and its chunk rows, or an error.
Create(a) ==
    /\ pc[a] = "Persisting"
    /\ \E ok \in BOOLEAN :
          IF ok
          THEN /\ files' = files \cup {fileRow(a)}
               /\ fileChunks' = fileChunks \cup chunkRows(a)
               /\ frame' = [frame EXCEPT ![a].fileRecordId = a]
               /\ pc' = [pc EXCEPT ![a] = "Created"]
          ELSE /\ Caught(a)
               /\ UNCHANGED <<files, fileChunks, frame>>
    /\ UNCHANGED <<replies, botRunning, temp, dirs, blobs, delPending,
                   served, upd,
                   authVars>>

\* Lines 101-107: fs.removeSync(tempFilePath), then the completion reply is
\* issued.  removeSync of a missing path succeeds; it may throw (EACCES).
Cleanup(a) ==
    /\ pc[a] = "Created"
    /\ \E ok \in BOOLEAN :
          IF ok
          THEN /\ temp' = Remove(temp, tempFilePathOf(frame[a].fileName))
               /\ pc' = [pc EXCEPT ![a] = "Reply2"]
          ELSE /\ Caught(a)
               /\ UNCHANGED temp
    /\ UNCHANGED <<frame, replies, botRunning, dirs, blobs, files, fileChunks,
                   delPending,
                   served, upd,
                   authVars>>

\* Line 107: await ctx.reply (processing complete, file id).
Reply2(a) ==
    /\ pc[a] = "Reply2"
    /\ \E ok \in BOOLEAN :
          IF ok
          THEN /\ replies' = [replies EXCEPT ![a] = Append(@, "done")]
               /\ pc' = [pc EXCEPT ![a] = "Committed"]
          ELSE /\ Caught(a)
               /\ UNCHANGED replies
    /\ UNCHANGED <<frame, botRunning, temp, dirs, blobs, files, fileChunks,
                   delPending,
                   served, upd,
                   authVars>>

\* A catch block that removes the blobs its handler's loop wrote.
blobsRolledBack(a) ==
    [q \in (DOMAIN blobs) \
            {chunkPathOf(chunkEntry(frame[a].fileBuffer, frame[a].fileSize, j).hash) :
                j \in 0 .. (frame[a].rounds - 1)} |-> blobs[q]]

\* The blob store as the catch block (lines 108-114) leaves it: the block logs
\* and replies, it has no file system call.
blobsAfterCatch(a) == blobs

\* Line 113: the catch block's reply.  When it throws too the handler rejects,
\* and with no bot.catch set grammY's default error handler stops the bot.
ReplyErr(a) ==
    /\ pc[a] = "ReplyErr"
    /\ \E ok \in BOOLEAN :
          IF ok
          THEN /\ replies' = [replies EXCEPT ![a] = Append(@, "error")]
               /\ pc' = [pc EXCEPT ![a] = "Failed"]
               /\ UNCHANGED botRunning
          ELSE /\ pc' = [pc EXCEPT ![a] = "Crashed"]
               /\ botRunning' = FALSE
               /\ UNCHANGED replies
    /\ blobs' = blobsAfterCatch(a)
    /\ UNCHANGED <<frame, temp, dirs, files, fileChunks, delPending,
                   served, upd,
                   authVars>>

\* ------------------------------------------------------- the HTTP handlers

\* The first query of deleteFile removing the blobs of the chunk rows as well.
DeleteChunksAndBlobs(id) ==
    /\ \E f \in files : f.id = id
    /\ id \notin delPending
    /\ fileChunks' = {c \in fileChunks : c.fileId # id}
    /\ blobs' = [q \in (DOMAIN blobs) \ {chunkPathOf(c.hash) :
                           c \in {d \in fileChunks : d.fileId = id}} |-> blobs[q]]
    /\ delPending' = delPending \cup {id}
    /\ UNCHANGED <<pc, frame, replies, botRunning, temp, dirs, files,
                   served, upd,
                   authVars>>

\* AdminController.deleteFile, first query:
\* prisma.fileChunk.deleteMany({ where: { fileId: id } }).  The client names a
\* file it has seen (ids are cuids); one request per id is in flight.
DeleteChunks(id) ==
    /\ \E f \in files : f.id = id
    /\ id \notin delPending
    /\ fileChunks' = {c \in fileChunks : c.fileId # id}
    /\ delPending' = delPending \cup {id}
    /\ UNCHANGED <<pc, frame, replies, botRunning, temp, dirs, blobs, files,
                   served, upd,
                   authVars>>

\* AdminController.deleteFile, second query: prisma.file.delete({ where: { id } }).
\* It throws when the row is missing (or chunk rows still refer to it), and
\* the handler answers with the error.
DeleteRow(id) ==
    /\ id \in delPending
    /\ delPending' = delPending \ {id}
    /\ files' = IF \E c \in fileChunks : c.fileId = id
                THEN files
                ELSE {f \in files : f.id # id}
    /\ UNCHANGED <<pc, frame, replies, botRunning, temp, dirs, blobs, fileChunks,
                   served, upd,
                   authVars>>

\* IndexController.file: prisma.file.findUnique with its FileChunks selected;
\* found is FALSE when there is no such row (the response carries null).
file(id) ==
    IF \E f \in files : f.id = id
    THEN LET f == CHOOSE g \in files : g.id = id
         IN  [found |-> TRUE, id |-> f.id, format |-> f.format, size |-> f.size,
              chunks |-> f.chunks, hash |-> f.hash,
              FileChunks |-> {[id |-> c.id, chunk |-> c.chunk, size |-> c.size,
                               hash |-> c.hash] : c \in {d \in fileChunks : d.fileId = id}}]
    ELSE [found |-> FALSE]

\* The path IndexController.chunk builds from the row's hash (lines 286-291).
chunkPathOnRead(hash) ==
    [dir1 |-> substring(hash, 0, 2), dir2 |-> substring(hash, 2, 4),
     file |-> hash, ext |-> "chk"]

\* ResponseUtil.error(c, message), called without a status argument: the error
\* response of the default status with the message.
ResponseUtil_error(message) ==
    [ok |-> FALSE, status |-> "default", message |-> message]

\* new Response(buffer): the chunk's bytes.
bytesResponse(buffer) == [ok |-> TRUE, status |-> "200", body |-> buffer]

\* The handler without its exists() check: a missing blob reads as no bytes.
chunkUnchecked(id, ioThrows) ==
    IF ~ \E c \in fileChunks : c.id = id
    THEN ResponseUtil_error("chunk row not found")
    ELSE LET c == CHOOSE d \in fileChunks : d.id = id
             chunkPath == chunkPathOnRead(c.hash)
         IN  IF ioThrows
             THEN ResponseUtil_error("chunk read failed")
             ELSE IF chunkPath \notin DOMAIN blobs
             THEN bytesResponse(<<>>)
             ELSE bytesResponse(blobs[chunkPath])

\* IndexController.chunk: the chunk row by id, then the blob by the row's
\* hash.  ioThrows: Bun.file(chunkPath).exists() or .arrayBuffer() throws (an
\* I/O error), which the handler's catch answers.
chunkOutcome(id, ioThrows) ==
    IF ~ \E c \in fileChunks : c.id = id
    THEN ResponseUtil_error("chunk row not found")
    ELSE LET c == CHOOSE d \in fileChunks : d.id = id
             chunkPath == chunkPathOnRead(c.hash)
         IN  IF ioThrows
             THEN ResponseUtil_error("chunk read failed")
             ELSE IF chunkPath \notin DOMAIN blobs
             THEN ResponseUtil_error("chunk data not found")
             ELSE bytesResponse(blobs[chunkPath])

\* IndexController.chunk when its file reads do not throw.
chunk(id) == chunkOutcome(id, FALSE)

\* The ids a client asks GET /chunk/:id for: the chunk rows' ids, and ids no row
\* has (an index at or beyond the chunk count, a file that was never created).
MaxChunks == totalChunksOf(MaxLen + 1)
ChunkIds == {<<f, i>> : f \in FileIds \cup {0}, i \in 0 .. MaxChunks}

\* GET /chunk/:id is served.
GetChunk(id) ==
    /\ \E ioThrows \in BOOLEAN :
          served' = [id |-> id, ioThrows |-> ioThrows,
                     response |-> chunkOutcome(id, ioThrows)]
    /\ UNCHANGED <<pc, frame, replies, botRunning, temp, dirs, blobs, files,
                   fileChunks, delPending, upd,
                   authVars>>

\* ------------------------------------------------------------ specification

Next ==
    \/ \E a \in Attempts :
          \/ Receive(a)
          \/ Reply1(a)
          \/ GetFile(a)
          \/ Fetch(a)
          \/ StageAndProcess(a)
          \/ Create(a)
          \/ Cleanup(a)
          \/ Reply2(a)
          \/ ReplyErr(a)
    \/ \E id \in FileIds :
          \/ DeleteChunks(id)
          \/ DeleteRow(id)

Spec == Init /\ [][Next]_vars

\* ---------------------------------------------- the chunk handler by itself

\* The File row and the FileChunk rows an attempt commits for a download of
\* the declared size.
committedFile(a, bytes) ==
    [id |-> a, format |-> determineFileFormat(UnknownFile), size |-> Len(bytes),
     desc |-> "", hash |-> sha256(bytes), filename |-> UnknownFile,
     bookId |-> "null", chunks |-> totalChunksOf(Len(bytes))]

committedRows(a, bytes) ==
    {[id |-> <<a, j>>, fileId |-> a, chunk |-> j,
      hash |-> chunkEntry(bytes, Len(bytes), j).hash,
      size |-> chunkEntry(bytes, Len(bytes), j).size] :
        j \in 0 .. (totalChunksOf(Len(bytes)) - 1)}

\* The catalog after some attempts committed, over a storage root that lost
\* some of the blobs since (files removed or a disk replaced outside of the
\* program: the case IndexController.chunk checks exists() for).
InitRead ==
    /\ \E present \in SUBSET Attempts, bodyOf \in [Attempts -> Bodies] :
          LET rows == UNION {committedRows(a, bodyOf[a]) : a \in present}
              paths == {chunkPathOf(c.hash) : c \in rows}
          IN  /\ pc = [a \in Attempts |->
                          IF a \in present THEN "Committed" ELSE "Ignored"]
              /\ files = {committedFile(a, bodyOf[a]) : a \in present}
              /\ fileChunks = rows
              /\ dirs = {getStoragePathFromHash(c.hash) : c \in rows}
              /\ \E lost \in SUBSET paths :
                    blobs = [p \in paths \ lost |-> preimage(p.file)]
    /\ frame = [a \in Attempts |-> BlankFrame]
    /\ replies = [a \in Attempts |-> <<>>]
    /\ botRunning = TRUE
    /\ temp = <<>>
    /\ delPending = {}
    /\ served = NoRequest
    /\ upd = [r \in Requests |-> NoUpdate]
    /\ InitAuth

NextRead == \E id \in ChunkIds : GetChunk(id)

SpecRead == InitRead /\ [][NextRead]_vars

\* ------------------------------------------------ the admin's file update

\* The Book table: b1 is public, b2 is not.
BookIds == {"b1", "b2"}
PublicBooks == {"b1"}

\* The validated JSON body of PUT /admin/file/:id (fileUpdateSchema): every
\* field is optional; extra: the body also carries format and filename.
UpdateData ==
    [bookId : {"undefined", "null", "b1"}, desc : {"undefined", "d"},
     extra : BOOLEAN]

\* An update that passes the whole body on to prisma.file.update.
updateDataSpread(f, data) ==
    [f EXCEPT !.bookId = IF data.bookId = "undefined" THEN @ ELSE data.bookId,
              !.desc = IF data.desc = "undefined" THEN @ ELSE data.desc,
              !.format = IF data.extra THEN "EPUB" ELSE @,
              !.filename = IF data.extra THEN <<"x">> ELSE @]

\* prisma.file.update({ data: { bookId: data.bookId, desc: data.desc } }): a
\* field that is undefined is left as it is.
updateData(f, data) ==
    [f EXCEPT !.bookId = IF data.bookId = "undefined" THEN @ ELSE data.bookId,
              !.desc = IF data.desc = "undefined" THEN @ ELSE data.desc]

\* Lines 532-539: the request arrives; an unbind (bookId null) first looks the
\* file up, any other body goes to the update.
UpdReceive(r) ==
    /\ upd[r].pc = "Idle"
    /\ \A q \in Requests : q < r => upd[q].pc # "Idle"
    /\ \E fileId \in FileIds, data \in UpdateData :
          upd' = [upd EXCEPT ![r] =
                     [NoUpdate EXCEPT
                         !.pc = IF data.bookId = "null" THEN "Find" ELSE "Write",
                         !.fileId = fileId,
                         !.data = data]]
    /\ UNCHANGED <<pc, frame, replies, botRunning, temp, dirs, blobs, files,
                   fileChunks, delPending, served,
                   authVars>>

\* Lines 539-545: prisma.file.findUnique for the current file.
UpdFind(r) ==
    /\ upd[r].pc = "Find"
    /\ LET found == {f \in files : f.id = upd[r].fileId /\ f.bookId # "null"}
       IN  IF found # {}
           THEN upd' = [upd EXCEPT ![r].pc = "Book",
                                   ![r].bookId = (CHOOSE f \in found : TRUE).bookId]
           ELSE upd' = [upd EXCEPT ![r].pc = "Write"]
    /\ UNCHANGED <<pc, frame, replies, botRunning, temp, dirs, blobs, files,
                   fileChunks, delPending, served,
                   authVars>>

\* Lines 547-551: prisma.book.findUnique for the file's book.
UpdBook(r) ==
    /\ upd[r].pc = "Book"
    /\ upd' = [upd EXCEPT ![r].pc =
                  IF upd[r].bookId \in BookIds /\ upd[r].bookId \in PublicBooks
                  THEN "Count" ELSE "Write"]
    /\ UNCHANGED <<pc, frame, replies, botRunning, temp, dirs, blobs, files,
                   fileChunks, delPending, served,
                   authVars>>

\* Lines 553-563: prisma.file.count of the book's files; the unbind of the
\* last file of a public book is answered with an error.
UpdCount(r) ==
    /\ upd[r].pc = "Count"
    /\ LET fileCount == Cardinality({f \in files : f.bookId = upd[r].bookId})
       IN  IF fileCount <= 1
           THEN upd' = [upd EXCEPT ![r].pc = "Done", ![r].response = "rejected"]
           ELSE upd' = [upd EXCEPT ![r].pc = "Write"]
    /\ UNCHANGED <<pc, frame, replies, botRunning, temp, dirs, blobs, files,
                   fileChunks, delPending, served,
                   authVars>>

\* Lines 568-579: prisma.file.update; it throws when the row does not exist,
\* and the catch answers with the error.
UpdWrite(r) ==
    /\ upd[r].pc = "Write"
    /\ IF \E f \in files : f.id = upd[r].fileId
       THEN LET f == CHOOSE g \in files : g.id = upd[r].fileId
            IN  /\ files' = (files \ {f}) \cup {updateData(f, upd[r].data)}
                /\ upd' = [upd EXCEPT ![r].pc = "Done", ![r].response = "ok"]
       ELSE /\ UNCHANGED files
            /\ upd' = [upd EXCEPT ![r].pc = "Done", ![r].response = "error"]
    /\ UNCHANGED <<pc, frame, replies, botRunning, temp, dirs, blobs,
                   fileChunks, delPending, served,
                   authVars>>

\* The bytes of the files of the catalog the admin works on (the update reads
\* and writes no chunk data).
AdminBodies == {Body(MaxLen)}

\* The catalog after every attempt committed and earlier updates bound some
\* of the files to books.
InitAdmin ==
    /\ \E bodyOf \in [Attempts -> AdminBodies],
          bookOf \in [Attempts -> {"null"} \cup BookIds] :
          LET rows == UNION {committedRows(a, bodyOf[a]) : a \in Attempts}
          IN  /\ files = {[committedFile(a, bodyOf[a]) EXCEPT !.bookId = bookOf[a]] :
                             a \in Attempts}
              /\ fileChunks = rows
              /\ dirs = {getStoragePathFromHash(c.hash) : c \in rows}
              /\ blobs = [p \in {chunkPathOf(c.hash) : c \in rows} |->
                             preimage(p.file)]
    /\ pc = [a \in Attempts |-> "Committed"]
    /\ frame = [a \in Attempts |-> BlankFrame]
    /\ replies = [a \in Attempts |-> <<>>]
    /\ botRunning = TRUE
    /\ temp = <<>>
    /\ delPending = {}
    /\ served = NoRequest
    /\ upd = [r \in Requests |-> NoUpdate]
    /\ InitAuth

NextAdmin ==
    \/ \E r \in Requests :
          \/ UpdReceive(r)
          \/ UpdFind(r)
          \/ UpdBook(r)
          \/ UpdCount(r)
          \/ UpdWrite(r)
    \/ \E id \in FileIds :
          \/ DeleteChunks(id)
          \/ DeleteRow(id)

SpecAdmin == InitAdmin /\ [][NextAdmin]_vars

\* The update requests among themselves, no deleteFile between their steps.
NextUnbind ==
    \E r \in Requests :
        \/ UpdReceive(r)
        \/ UpdFind(r)
        \/ UpdBook(r)
        \/ UpdCount(r)
        \/ UpdWrite(r)

SpecUnbind == InitAdmin /\ [][NextUnbind]_vars

\* ------------------------------------------- the format of a document

\* A word in every mix of upper and lower case.
upperChar(c) ==
    CASE c = "p" -> "P" [] c = "d" -> "D" [] c = "f" -> "F" [] c = "e" -> "E"
      [] c = "u" -> "U" [] c = "b" -> "B" [] OTHER -> c

caseVariants(word) ==
    {[i \in 1 .. Len(word) |-> IF i \in S THEN upperChar(word[i]) ELSE word[i]] :
        S \in SUBSET (1 .. Len(word))}

\* document.file_name of the documents sent to the bot: a stem and an ending.
Stems == {<<>>, <<"a">>, <<"a", ".", "b">>, <<".">>, <<"a", ".">>}
Endings ==
    caseVariants(<<".", "p", "d", "f">>) \cup caseVariants(<<".", "e", "p", "u", "b">>)
      \cup {<<>>, <<".">>, <<"p", "d", "f">>, <<".", "p", "d">>,
            <<".", "p", "d", "f", "x">>, <<".", "e", "p", "u", "b", ".">>,
            <<".", "t", "x", "t">>, <<".", "P", "D", "F", ".", "b">>}
FormatNames == {stem \o ending : stem \in Stems, ending \in Endings} \ {NoName}

\* The first handler has staged and chunked a one-byte document of any of the
\* names and is about to create its File row.
InitFormat ==
    /\ \E fileName \in FormatNames :
          LET bytes == Body(1)
          IN  /\ frame = [a \in Attempts |->
                            IF a = 1
                            THEN [BlankFrame EXCEPT
                                     !.fileName = fileName,
                                     !.fileSize = Len(bytes),
                                     !.fileBuffer = bytes,
                                     !.fileHash = sha256(bytes),
                                     !.chunks = chunksAfter(bytes, Len(bytes), 1),
                                     !.staged = TRUE,
                                     !.rounds = 1]
                            ELSE BlankFrame]
              /\ temp = Put(<<>>, tempFilePathOf(fileName), bytes)
              /\ dirs = dirsAfter({}, bytes, Len(bytes), 1)
              /\ blobs = blobsAfter(<<>>, bytes, Len(bytes), 1)
    /\ pc = [a \in Attempts |-> IF a = 1 THEN "Persisting" ELSE "Idle"]
    /\ replies = [a \in Attempts |-> IF a = 1 THEN <<"received">> ELSE <<>>]
    /\ botRunning = TRUE
    /\ files = {}
    /\ fileChunks = {}
    /\ delPending = {}
    /\ served = NoRequest
    /\ upd = [r \in Requests |-> NoUpdate]
    /\ InitAuth

NextFormat ==
    \E a \in Attempts :
        \/ Create(a)
        \/ Cleanup(a)
        \/ Reply2(a)
        \/ ReplyErr(a)

SpecFormat == InitFormat /\ [][NextFormat]_vars

\* ----------------------------------------------------- the /admin routes

\* What the ingestion and the catalog handlers write.
coreVars == <<pc, frame, replies, botRunning, temp, dirs, blobs, files,
              fileChunks, delPending, served, upd>>

\* Nothing was uploaded and no catalog request is under way.
InitCore ==
    /\ pc = [a \in Attempts |-> "Idle"]
    /\ frame = [a \in Attempts |-> BlankFrame]
    /\ replies = [a \in Attempts |-> <<>>]
    /\ botRunning = TRUE
    /\ temp = <<>>
    /\ dirs = {}
    /\ blobs = <<>>
    /\ files = {}
    /\ fileChunks = {}
    /\ delPending = {}
    /\ served = NoRequest
    /\ upd = [r \in Requests |-> NoUpdate]

\* admin.ts: the handlers of the /admin controller.
AdminHandlers ==
    {"me", "category", "getCategoryById", "createCategory", "updateCategory",
     "deleteCategory", "reorderCategories", "book", "bookDetail", "createBook",
     "updateBook", "deleteBook", "getFiles", "getFileDetail", "updateFileMeta",
     "deleteFile", "getRandomBook", "searchDoubanBooks", "getDoubanBook",
     "downloadDoubanImage", "proxyDoubanImage", "serveCoverImage"}

\* The route decorator of the handler lists authMiddleware: all do but those
\* of lines 594, 711, 741 and 780.
hasAuthMiddleware(handler) ==
    handler \notin {"getRandomBook", "downloadDoubanImage", "proxyDoubanImage",
                    "serveCoverImage"}

\* The handlers whose route pattern matches a request for the route of
\* handler h: GET /admin/book/random also matches '/book/:id' and
\* PUT /admin/category/reorder also matches '/category/:path', both declared
\* earlier; which of the two the router picks is not in these sources.
dispatch(h) ==
    CASE h = "getRandomBook" -> {"getRandomBook", "bookDetail"}
      [] h = "reorderCategories" -> {"reorderCategories", "updateCategory"}
      [] OTHER -> {h}

\* A middleware that leaves the cookie of a rejected request as it is.
clearAuthCookieKept == "none"

\* Lines 70-72: deleteCookie(c, 'auth_token').
clearAuthCookie == "cleared"

\* Lines 77-85: setCookie of the same token with a new maxAge.
refreshAuthCookie == "refreshed"

\* Lines 91-140: authMiddleware for a request whose auth_token cookie holds
\* token: the status it answers with, whether it calls next(), and what it
\* does to the cookie.
authMiddleware(token) ==
    IF token = NoToken
    THEN [status |-> "401", next |-> FALSE, setCookie |-> "none"]
    ELSE IF verifyThrows(token)
    THEN [status |-> "401", next |-> FALSE, setCookie |-> clearAuthCookie]
    ELSE IF isTokenExpired(token)
    THEN [status |-> "401", next |-> FALSE, setCookie |-> clearAuthCookie]
    ELSE IF ~ validateTokenStructure(token)
    THEN [status |-> "401", next |-> FALSE, setCookie |-> clearAuthCookie]
    ELSE IF ~ isUserAdmin(token.provider, token.username)
    THEN [status |-> "403", next |-> FALSE, setCookie |-> clearAuthCookie]
    ELSE [status |-> "200", next |-> TRUE, setCookie |-> refreshAuthCookie]

\* The browser's jar after a response with this Set-Cookie for auth_token.
jarAfter(jar, setCookie, token) ==
    CASE setCookie = "cleared" ->
            [jar EXCEPT !.auth_token = NoToken, !.auth_expires = 0]
      [] setCookie = "refreshed" ->
            [jar EXCEPT !.auth_token = token,
                        !.auth_expires = now + REFRESH_MAX_AGE]
      [] setCookie = "set" ->
            [jar EXCEPT !.auth_token = token,
                        !.auth_expires = now + TOKEN_EXPIRE_TIME]
      [] OTHER -> jar

\* The answer to a request that is dispatched to handler with this cookie:
\* the middleware of the route first when it has one, then the handler.
adminResponse(handler, token) ==
    LET out == IF hasAuthMiddleware(handler)
               THEN authMiddleware(token)
               ELSE [status |-> "200", next |-> TRUE, setCookie |-> "none"]
    IN  [NoHttp EXCEPT !.endpoint = "admin", !.handler = handler,
                       !.token = token, !.status = out.status,
                       !.next = out.next, !.setCookie = out.setCookie]

\* The tokens a client may send: any payload, signed with the secret or not.
Tokens ==
    [sub : {"", "1"},
     provider : {"", "telegram", "telegram-widget", "github", "other"},
     username : Usernames \cup {Undefined},
     exp : {0, 2 * Day},
     sig : {"ok", "bad"}]

\* A request to an /admin route from any client, with any cookie or none.
AdminRequest(route, token) ==
    /\ \E handler \in dispatch(route) : http' = adminResponse(handler, token)
    /\ UNCHANGED <<from, processEnv, now, cookies>>
    /\ UNCHANGED coreVars

\* The browser's request to an /admin route: it sends the cookie of its jar
\* and applies the response's Set-Cookie.
BrowserRequest(route) ==
    /\ \E handler \in dispatch(route) :
          /\ http' = adminResponse(handler, cookies.auth_token)
          /\ cookies' = jarAfter(cookies, http'.setCookie, cookies.auth_token)
    /\ UNCHANGED <<from, processEnv, now>>
    /\ UNCHANGED coreVars

\* A day passes: the browser drops the cookies whose maxAge ran out (the
\* state cookie lives 600 seconds).
Tick ==
    /\ now < MaxDay * Day
    /\ now' = now + Day
    /\ cookies' = IF cookies.auth_token # NoToken /\ cookies.auth_expires <= now'
                  THEN NoCookies
                  ELSE [cookies EXCEPT !.github_oauth_state = 0]
    /\ http' = NoHttp
    /\ UNCHANGED <<from, processEnv>>
    /\ UNCHANGED coreVars

\* The configurations the process may start with.
Envs ==
    [TELEGRAM_ADMIN_USERS : TelegramEnvs, GITHUB_ADMIN_USERS : GithubEnvs]

InitGate ==
    /\ InitCore
    /\ from = [a \in Attempts |-> <<"a">>]
    /\ processEnv \in Envs
    /\ now = 0
    /\ cookies = NoCookies
    /\ http = NoHttp

\* One request is looked at in every configuration and on every day.
NextGate ==
    \/ /\ http = NoHttp
       /\ \E route \in AdminHandlers, token \in Tokens \cup {NoToken} :
             AdminRequest(route, token)
    \/ Tick

SpecGate == InitGate /\ [][NextGate]_vars

\* ------------------------------------------------- the login endpoints

\* controllers/auth.ts lines 31-39: setAuthCookie.
setAuthCookie == "set"

\* The answer of a login endpoint: an error status, or the token it issued
\* and set as the auth_token cookie.
loginResponse(endpoint, status, userPayload) ==
    [NoHttp EXCEPT
        !.endpoint = endpoint,
        !.token = cookies.auth_token,
        !.status = status,
        !.issued = IF status = "200" THEN createJwtToken(userPayload)
                   ELSE NoToken,
        !.setCookie = IF status = "200" THEN setAuthCookie ELSE "none"]

\* Lines 78-151: POST /auth/telegram.  validate(initDataRaw, BOT_TOKEN) throws
\* for data Telegram did not sign; a user without user name is refused before
\* the admin check.
telegramAuth ==
    /\ \E valid \in BOOLEAN, username \in Usernames \cup {Undefined} :
          LET status ==
                  IF ~ valid THEN "401"
                  ELSE IF username \in {Undefined, <<>>} THEN "401"
                  ELSE IF ~ checkAdminPermission("telegram", username) THEN "403"
                  ELSE "200"
          IN  http' = loginResponse("telegram", status,
                          [sub |-> "1", provider |-> "telegram",
                           username |-> username])
    /\ cookies' = jarAfter(cookies, http'.setCookie, http'.issued)
    /\ UNCHANGED <<from, processEnv, now>>
    /\ UNCHANGED coreVars

\* Lines 153-241: POST /auth/telegram-widget.  The user name is a field of the
\* body; it is part of the signed string only when it is not empty, and the
\* admin check gets it as it came.
telegramWidgetAuth ==
    /\ \E complete \in BOOLEAN, hashOk \in BOOLEAN, fresh \in BOOLEAN,
          username \in Usernames \cup {Undefined} :
          LET status ==
                  IF ~ complete THEN "400"
                  ELSE IF ~ hashOk THEN "401"
                  ELSE IF ~ fresh THEN "401"
                  ELSE IF ~ checkAdminPermission("telegram-widget", username)
                  THEN "403"
                  ELSE "200"
          IN  http' = loginResponse("telegram-widget", status,
                          [sub |-> "1", provider |-> "telegram-widget",
                           username |-> username])
    /\ cookies' = jarAfter(cookies, http'.setCookie, http'.issued)
    /\ UNCHANGED <<from, processEnv, now>>
    /\ UNCHANGED coreVars

\* crypto.randomBytes(16): the state values of the model; 0 is no value.
MaxStates == 2
OAuthStates == 1 .. MaxStates

\* Lines 243-267: GET /auth/github/login-url stores a random state in the
\* github_oauth_state cookie and returns it in the login URL.
githubLoginUrl ==
    /\ \E state \in OAuthStates :
          /\ cookies' = [cookies EXCEPT !.github_oauth_state = state]
          /\ http' = [NoHttp EXCEPT !.endpoint = "github/login-url",
                                    !.token = cookies.auth_token,
                                    !.status = "200", !.state = state]
    /\ UNCHANGED <<from, processEnv, now>>
    /\ UNCHANGED coreVars

\* A callback that goes on whenever it has a code and a state.
callbackAcceptsAnyState(code, state, storedState) == code /\ state # 0

\* Line 280: the callback goes on unless
\* !code || !state || state !== storedState.
callbackAccepts(code, state, storedState) ==
    code /\ state # 0 /\ state = storedState

\* Lines 269-417: GET /auth/github/callback.  The state cookie is deleted
\* first; after the state check come the token exchange, the user fetch, the
\* admin check and the token.
githubCallback ==
    /\ \E code \in BOOLEAN, state \in {0} \cup OAuthStates,
          github \in {"exchangeFails", "userFetchFails", "ok"},
          login \in Usernames :
          LET storedState == cookies.github_oauth_state
              accepted == callbackAccepts(code, state, storedState)
              status ==
                  IF ~ accepted THEN "400"
                  ELSE IF github # "ok" THEN "500"
                  ELSE IF login = <<>> THEN "400"
                  ELSE IF ~ checkAdminPermission("github", login) THEN "403"
                  ELSE "200"
          IN  /\ http' = [loginResponse("github/callback", status,
                              [sub |-> "1", provider |-> "github",
                               username |-> login])
                            EXCEPT !.state = state, !.stored = storedState,
                                   !.exchanged = accepted]
              /\ cookies' = [jarAfter(cookies, http'.setCookie, http'.issued)
                               EXCEPT !.github_oauth_state = 0]
    /\ UNCHANGED <<from, processEnv, now>>
    /\ UNCHANGED coreVars

\* The /admin routes the browser of the model asks for: one behind
\* authMiddleware, one not.
SessionRoutes == {"me", "serveCoverImage"}

InitSession ==
    /\ InitCore
    /\ from = [a \in Attempts |-> <<"a">>]
    /\ processEnv \in Envs
    /\ now = 0
    /\ cookies = NoCookies
    /\ http = NoHttp

NextSession ==
    \/ telegramAuth
    \/ telegramWidgetAuth
    \/ githubLoginUrl
    \/ githubCallback
    \/ \E route \in SessionRoutes : BrowserRequest(route)
    \/ Tick

SpecSession == InitSession /\ [][NextSession]_vars

\* -------------------------------------------- the sender of a document

\* ctx.from?.username of a document message: an administrator, somebody
\* else, a sender without user name, and no sender (a channel post).
Senders == Usernames \cup {Undefined}

\* Line 93: createdBy: ctx.from?.username || 'unknown'.
createdBy(a) ==
    IF from[a] \in {Undefined, <<>>}
    THEN <<"u", "n", "k", "n", "o", "w", "n">>
    ELSE from[a]

\* The attempts of one sender after the other is not needed to see who may
\* upload: one update, from any sender.
UploadAttempts == {1}

InitUpload ==
    /\ InitCore
    /\ from \in [Attempts -> Senders]
    /\ processEnv = [TELEGRAM_ADMIN_USERS |-> <<"a">>,
                     GITHUB_ADMIN_USERS |-> <<"a">>]
    /\ now = 0
    /\ cookies = NoCookies
    /\ http = NoHttp

NextUpload ==
    \E a \in UploadAttempts :
        \/ Receive(a)
        \/ Reply1(a)
        \/ GetFile(a)
        \/ Fetch(a)
        \/ StageAndProcess(a)
        \/ Create(a)
        \/ Cleanup(a)
        \/ Reply2(a)
        \/ ReplyErr(a)

SpecUpload == InitUpload /\ [][NextUpload]_vars

\* Every await of the handler settles: the promise of a reply, of getFile, of
\* fetch and of the create resolves or rejects, and the handler goes on.
SpecUploadFair ==
    /\ InitUpload
    /\ [][NextUpload]_vars
    /\ \A a \in UploadAttempts :
          WF_vars(Reply1(a) \/ GetFile(a) \/ Fetch(a) \/ StageAndProcess(a)
                    \/ Create(a) \/ Cleanup(a) \/ Reply2(a) \/ ReplyErr(a))

\* ------------------------------------------------------------ properties

\* The FileChunk rows that refer to file id.
rowsOf(id) == {c \in fileChunks : c.fileId = id}

\* The handlers that ended: returned normally, after the catch block, or by
\* rejecting.
Ended == {"Committed", "Failed", "Crashed"}

\* C1: whatever a reader of GET /file/:id observes, in any state and under any
\* interleaving of commits, deleteFile requests and reads, the row's chunks
\* field equals the number of FileChunk rows returned with it.
C1_ChunkCountMatchesRows ==
    \A id \in FileIds :
        file(id).found => file(id).chunks = Cardinality(file(id).FileChunks)

\* C2: a handler that wrote its staging file and ended (committed or failed)
\* has left no file at its staging path.
C2_StagingDeletedAtEnd ==
    \A a \in Attempts :
        (pc[a] \in Ended /\ frame[a].staged)
            => tempFilePathOf(frame[a].fileName) \notin DOMAIN temp

\* C3: an attempt for a file of size 0 (declared 0, no bytes staged) is
\* rejected before any chunk is produced: it runs no chunk round, creates no
\* File row and no FileChunk row, and does not end as completed.
C3_ZeroSizeRejected ==
    \A a \in Attempts :
        (frame[a].staged /\ frame[a].fileSize = 0 /\ frame[a].fileBuffer = <<>>)
          => /\ pc[a] # "Committed"
             /\ frame[a].rounds = 0
             /\ frame[a].fileRecordId = 0
             /\ ~ \E f \in files : f.id = a
             /\ rowsOf(a) = {}

\* The chunk paths rounds 0..k of handler a's loop write to.
pathsUpTo(fr, k) ==
    {chunkPathOf(chunkEntry(fr.fileBuffer, fr.fileSize, j).hash) : j \in 0 .. k}

C4_NoRecords ==
    \A a \in Attempts :
        frame[a].failedChunk >= 0
          => /\ pc[a] \in {"ReplyErr", "Failed", "Crashed"}
             /\ frame[a].rounds = frame[a].failedChunk
             /\ ~ \E f \in files : f.id = a
             /\ rowsOf(a) = {}

C4_StopsAtFailedChunk ==
    \A a \in Attempts :
        (pc[a] = "Body" /\ frame'[a].failedChunk >= 0)
          => \A p \in DOMAIN blobs' :
                (p \notin DOMAIN blobs \/ blobs'[p] # blobs[p])
                    => p \in pathsUpTo(frame'[a], frame'[a].failedChunk)

\* C4: when the put of chunk k throws, the step that ran the loop wrote no
\* blob of a chunk after k, the handler is in its catch block (or ended), and
\* no File row and no FileChunk row of that attempt exists, then or later.
C4_ChunkWriteFailureAborts ==
    [] C4_NoRecords /\ [][C4_StopsAtFailedChunk]_vars

\* C4's case: the put of the second of three chunks threw and the handler
\* ended in failure.
C4_Witness ==
    \E a \in Attempts :
        /\ pc[a] = "Failed"
        /\ frame[a].failedChunk = 1
        /\ totalChunksOf(frame[a].fileSize) = 3
        /\ Len(frame[a].fileBuffer) = frame[a].fileSize

\* Some File row has this id.
hasFile(rows, id) == \E f \in rows : f.id = id

C5_BlobsOfRowsExist ==
    \A f \in files :
        \A c \in rowsOf(f.id) : chunkPathOf(c.hash) \in DOMAIN blobs

C5_AtomicCreate ==
    \A id \in FileIds :
        LET rowsAfter == {c \in fileChunks' : c.fileId = id}
            created == ~ hasFile(files, id) /\ hasFile(files', id)
        IN  /\ created =>
                /\ rowsOf(id) = {}
                /\ \A f \in files' :
                      f.id = id => Cardinality(rowsAfter) = f.chunks
                /\ \A c \in rowsAfter : chunkPathOf(c.hash) \in DOMAIN blobs
                /\ frame[id].rounds = totalChunksOf(frame[id].fileSize)
            /\ ~ (rowsAfter \subseteq rowsOf(id)) => created

\* C5: a File row and its FileChunk rows appear in one step (the row with as
\* many chunk rows as its chunks field, none before, and chunk rows never
\* without their File row), that step comes after every round of the chunk
\* loop wrote its blob, and the blob of every chunk row of an existing File
\* row exists.
C5_AtomicCommitAfterBlobs ==
    [] C5_BlobsOfRowsExist /\ [][C5_AtomicCreate]_vars

\* C5's case: a File row with three chunk rows.
C5_Witness ==
    \E f \in files : f.chunks = 3 /\ Cardinality(rowsOf(f.id)) = 3

RECURSIVE sumSizes(_)
sumSizes(rows) ==
    IF rows = {} THEN 0
    ELSE LET c == CHOOSE d \in rows : TRUE
         IN  c.size + sumSizes(rows \ {c})

\* C6: the size field of every committed File row (all its chunk rows present)
\* equals the sum of the size fields of its chunk rows, whatever size was
\* declared and whatever number of bytes was staged.
C6_SizeIsSumOfChunkSizes ==
    \A f \in files :
        Cardinality(rowsOf(f.id)) = f.chunks => f.size = sumSizes(rowsOf(f.id))

\* ceil(S / C), stated without the code's arithmetic.
ceilDiv(S, C) == CHOOSE n \in 0 .. S : n * C >= S /\ (n - 1) * C < S

\* C7: for a file of S > 0 bytes (S declared and S staged) processFileChunks
\* returns ceil(S / CHUNK_SIZE) chunks, each but the last of CHUNK_SIZE bytes
\* and the last of S mod CHUNK_SIZE bytes, or CHUNK_SIZE when that is 0.
C7_ChunkCountAndSizes ==
    \A a \in Attempts :
        LET S == frame[a].fileSize
            chunks == frame[a].chunks
            n == Len(chunks)
        IN  (frame[a].staged /\ frame[a].failedChunk = -1 /\ S > 0
                /\ Len(frame[a].fileBuffer) = S)
              => /\ n = ceilDiv(S, CHUNK_SIZE)
                 /\ \A j \in 1 .. (n - 1) : chunks[j].size = CHUNK_SIZE
                 /\ chunks[n].size = IF S % CHUNK_SIZE # 0 THEN S % CHUNK_SIZE
                                     ELSE CHUNK_SIZE

\* C7's case: 5 bytes with CHUNK_SIZE 2 give chunks of 2, 2 and 1 bytes.
C7_Witness ==
    \E a \in Attempts :
        /\ pc[a] = "Persisting"
        /\ frame[a].fileSize = 5
        /\ Len(frame[a].fileBuffer) = 5
        /\ [j \in 1 .. Len(frame[a].chunks) |-> frame[a].chunks[j].size] = <<2, 2, 1>>

\* C8: the chunk indices of the FileChunk rows of every File row are exactly
\* 0 .. chunks-1, each once.
C8_IndicesContiguous ==
    \A f \in files :
        /\ {c.chunk : c \in rowsOf(f.id)} = 0 .. (f.chunks - 1)
        /\ Cardinality(rowsOf(f.id)) = f.chunks

\* The same, for the File rows no deleteFile request is working on.
C8_IndicesContiguousOutsideDelete ==
    \A f \in files :
        f.id \notin delPending
          => /\ {c.chunk : c \in rowsOf(f.id)} = 0 .. (f.chunks - 1)
             /\ Cardinality(rowsOf(f.id)) = f.chunks

\* GET /chunk/:id for the chunk row of file fileId with index i (the client
\* takes the row ids from GET /file/:id).
retrieve(fileId, i) ==
    IF \E c \in rowsOf(fileId) : c.chunk = i
    THEN chunk((CHOOSE c \in rowsOf(fileId) : c.chunk = i).id)
    ELSE [ok |-> FALSE, message |-> "chunk row not found"]

\* The bodies of chunks 0 .. n-1 of a file, concatenated in index order.
RECURSIVE reassemble(_, _)
reassemble(fileId, n) ==
    IF n = 0 THEN <<>>
    ELSE reassemble(fileId, n - 1) \o retrieve(fileId, n - 1).body

\* C9: for every committed File row (all its chunk rows present) every chunk
\* retrieval succeeds and the bodies of chunks 0 .. chunks-1 concatenated are
\* the bytes that were staged, the bytes the row's hash was computed over.
C9_RoundTrip ==
    \A f \in files :
        Cardinality(rowsOf(f.id)) = f.chunks
          => /\ \A i \in 0 .. (f.chunks - 1) : retrieve(f.id, i).ok
             /\ reassemble(f.id, f.chunks) = preimage(f.hash)

\* Handler a is between staging its file and finishing.
inStagingWindow(a) == frame[a].staged /\ pc[a] \notin Terminal

\* The step is one of handler b that writes and reads its staging path
\* (lines 71-80) or removes it (line 104).
touchesStaging(b) ==
    \/ pc[b] = "Body" /\ pc'[b] # "Body" /\ (frame'[b].staged \/ temp' # temp)
    \/ pc[b] = "Created" /\ pc'[b] = "Reply2"

C11_NoPartialBlobVisible ==
    \A c \in fileChunks :
        chunk(c.id).ok => chunk(c.id).body = preimage(c.hash)

\* Two File rows with all their chunk rows, one chunk of each with the same
\* digest.
shareChunk(f, g) ==
    /\ f.id # g.id
    /\ Cardinality(rowsOf(f.id)) = f.chunks
    /\ Cardinality(rowsOf(g.id)) = g.chunks
    /\ \E c \in rowsOf(f.id), d \in rowsOf(g.id) : c.hash = d.hash

loopCompletes(a) == pc[a] = "Body" /\ pc'[a] = "Persisting"

\* C13: a chunk loop that writes bytes under a digest whose blob already holds
\* these bytes (the second put of the same bytes) leaves the store with exactly
\* one blob for the digest, at the path it had, with the content it had after
\* the first put, and every retrieval of a chunk row with that digest returns
\* the same bytes after the step as before it.
C13_PutIdempotent ==
    [][\A a \in Attempts :
          loopCompletes(a)
            => \A j \in 1 .. Len(frame'[a].chunks) :
                  LET h == frame'[a].chunks[j].hash
                      p == chunkPathOf(h)
                  IN  (p \in DOMAIN blobs /\ blobs[p] = preimage(h))
                        => /\ {q \in DOMAIN blobs' : q.file = h} = {p}
                           /\ blobs'[p] = blobs[p]
                           /\ \A c \in fileChunks :
                                 c.hash = h => chunk(c.id)' = chunk(c.id)]_vars

\* C13's case: a second attempt ran its loop and one of its chunks has the
\* digest of a chunk row an earlier attempt committed, whose blob is intact:
\* the same bytes were put twice.
C13_Witness ==
    \E a \in Attempts :
        /\ pc[a] = "Persisting"
        /\ \E j \in 1 .. Len(frame[a].chunks), c \in fileChunks :
              /\ c.fileId < a
              /\ c.hash = frame[a].chunks[j].hash
              /\ c.size > 0
              /\ chunk(c.id).ok
              /\ chunk(c.id).body = preimage(c.hash)

\* The step is one of the two queries of a deleteFile request for file id.
deleteStep(id) == (id \in delPending) # (id \in delPending')

\* C14: the queries of a deleteFile request remove the File row of the file
\* and its FileChunk rows and nothing else: no blob and no shard directory is
\* removed or changed, the rows of every other file are as they were, every
\* chunk of another file is retrieved as before (also one that has the digest
\* of a chunk of the deleted file), and when the request is through neither
\* the File row nor any of its chunk rows is left.
C14_DeleteFrame ==
    [][\A id \in FileIds :
          deleteStep(id)
            => /\ blobs' = blobs
               /\ dirs' = dirs
               /\ temp' = temp
               /\ {f \in files' : f.id # id} = {f \in files : f.id # id}
               /\ {c \in fileChunks' : c.fileId # id}
                     = {c \in fileChunks : c.fileId # id}
               /\ \A c \in fileChunks :
                     c.fileId # id => chunk(c.id)' = chunk(c.id)
               /\ id \notin delPending'
                     => /\ ~ hasFile(files', id)
                        /\ {c \in fileChunks' : c.fileId = id} = {}]_vars

\* C14's case: the file of the last attempt was committed and then deleted,
\* and a chunk of it has the digest of a chunk of the other file, which is
\* still retrieved whole through the other file's chunk row.
C14_Witness ==
    /\ pc[MaxAttempts] = "Committed"
    /\ MaxAttempts \notin delPending
    /\ ~ hasFile(files, MaxAttempts)
    /\ rowsOf(MaxAttempts) = {}
    /\ \E c \in fileChunks, j \in 1 .. Len(frame[MaxAttempts].chunks) :
          /\ c.hash = frame[MaxAttempts].chunks[j].hash
          /\ c.size > 0
          /\ hasFile(files, c.fileId)
          /\ chunk(c.id).ok
          /\ chunk(c.id).body = preimage(c.hash)

\* Handler a's attempt failed: its catch block runs or it has ended in failure.
failedAttempt(a) == pc[a] \in {"ReplyErr", "Failed", "Crashed"}

\* The blob paths of the chunks the rounds handler a's loop completed wrote.
writtenBy(a) ==
    {chunkPathOf(chunkEntry(frame[a].fileBuffer, frame[a].fileSize, j).hash) :
        j \in 0 .. (frame[a].rounds - 1)}

C15_WrittenBlobsKept ==
    \A a \in Attempts : failedAttempt(a) => writtenBy(a) \subseteq DOMAIN blobs

C15_NoBlobRemoved == DOMAIN blobs \subseteq DOMAIN blobs'

\* C15: a failed attempt rolls back no blob: while its catch block runs and
\* after it ended, the blob of every chunk its loop wrote before the put that
\* threw, and of every chunk when it was the create that failed, is in the blob
\* store; and no step of the program ever removes a blob.
C15_NoRollback ==
    [] C15_WrittenBlobsKept /\ [][C15_NoBlobRemoved]_vars

\* C15's case: the put of the third chunk threw, the attempt ended in failure
\* with no File row, and the blobs of its first two chunks are in the store.
C15_Witness ==
    \E a \in Attempts :
        /\ pc[a] = "Failed"
        /\ frame[a].failedChunk = 2
        /\ frame[a].rounds = 2
        /\ ~ hasFile(files, a)
        /\ Cardinality(writtenBy(a)) = 2
        /\ \A p \in writtenBy(a) : p \in DOMAIN blobs /\ blobs[p] = preimage(p.file)

\* The other case of C15: every round succeeded and the create failed.
C15_CreateFailed ==
    \E a \in Attempts :
        /\ pc[a] = "Failed"
        /\ frame[a].failedChunk = -1
        /\ frame[a].rounds = 3
        /\ frame[a].fileRecordId = 0
        /\ Cardinality(writtenBy(a)) = 3
        /\ writtenBy(a) \subseteq DOMAIN blobs

\* No chunk row has the id.
rowMissing(id) == ~ \E c \in fileChunks : c.id = id

\* A chunk row has the id and no blob is at the path of its digest.
blobAbsent(id) ==
    \E c \in fileChunks : c.id = id /\ chunkPathOf(c.hash) \notin DOMAIN blobs

\* C16: a chunk retrieval for an id that no chunk row has (an index at or
\* beyond the file's chunk count, an unknown file) is answered with the error
\* "chunk row not found"; one for a row whose blob is absent is answered with
\* the error "chunk data not found" (with "chunk read failed" when the check
\* of the path itself throws); neither answer carries chunk bytes.
C16_MissingIsNotFound ==
    served # NoRequest
      => LET r == served.response
         IN  /\ rowMissing(served.id)
                  => r = ResponseUtil_error("chunk row not found")
             /\ blobAbsent(served.id)
                  => /\ ~ r.ok
                     /\ "body" \notin DOMAIN r
                     /\ ~ served.ioThrows
                           => r = ResponseUtil_error("chunk data not found")

\* C16's case: a retrieval of a chunk row whose blob is absent was answered
\* "chunk data not found".
C16_Witness ==
    /\ served # NoRequest
    /\ blobAbsent(served.id)
    /\ served.response = ResponseUtil_error("chunk data not found")

\* The other case of C16: a retrieval of index chunks of a committed file.
C16_BeyondCount ==
    /\ served # NoRequest
    /\ \E f \in files : f.chunks = 3 /\ served.id = <<f.id, f.chunks>>
    /\ served.response = ResponseUtil_error("chunk row not found")

\* What a caller can tell a response's kind by: everything but the message
\* text.
kindOf(r) == [ok |-> r.ok, status |-> r.status]

\* C17: the not-found answers of chunk retrieval (no such row, no blob) are of
\* another kind than the answer to an internal read failure: a retrieval that
\* failed on an I/O error was never answered with the kind of response a
\* not-found retrieval gets.
C17_NotFoundIsTyped ==
    (served # NoRequest /\ served.ioThrows /\ ~ rowMissing(served.id))
      => \A id \in ChunkIds :
            (rowMissing(id) \/ blobAbsent(id))
              => kindOf(chunkOutcome(id, FALSE)) # kindOf(served.response)

\* C18: in every step, a FileChunk row that is still there has the digest,
\* size and index (and file) it had, and a File row that is still there has
\* the size, hash and chunk count it had; a file update leaves the format and
\* the filename as they were too, also when the request carries them: it
\* changes the description and the book link only.
C18_StructuralFieldsImmutable ==
    [][/\ \A c \in fileChunks :
             (\E d \in fileChunks' : d.id = c.id) => c \in fileChunks'
       /\ \A f \in files : \A g \in files' :
             g.id = f.id
               => /\ g.size = f.size
                  /\ g.hash = f.hash
                  /\ g.chunks = f.chunks
                  /\ g.format = f.format
                  /\ g.filename = f.filename]_vars

\* C18's case: an update whose body carried format and filename along with a
\* description was applied: the row has the description, and the format and
\* filename it was created with.
C18_Witness ==
    \E r \in Requests :
        /\ upd[r].pc = "Done"
        /\ upd[r].response = "ok"
        /\ upd[r].data.extra
        /\ upd[r].data.desc = "d"
        /\ \E f \in files :
              /\ f.id = upd[r].fileId
              /\ f.desc = "d"
              /\ f.format = determineFileFormat(UnknownFile)
              /\ f.filename = UnknownFile
              /\ Cardinality(rowsOf(f.id)) = f.chunks

\* C19: the path of a blob is a function of its digest alone,
\* root/digest[0:2]/digest[2:4]/digest.chk: every blob the ingestion wrote is
\* at the path of that shape, the path the retrieval computes for its digest
\* (under the same root), so the blob of every chunk row is where the
\* retrieval looks for it and no digest has blobs at two paths.
C19_PathIsFunctionOfDigest ==
    /\ \A env \in StoragePathEnvs : storagePath(env) = storagePathOnRead(env)
    /\ \A p \in DOMAIN blobs :
          /\ p = chunkPathOnRead(p.file)
          /\ p.dir1 = SubSeq(p.file, 1, 2)
          /\ p.dir2 = SubSeq(p.file, 3, 4)
          /\ p.ext = "chk"
          /\ [dir1 |-> p.dir1, dir2 |-> p.dir2] \in dirs
    /\ \A p, q \in DOMAIN blobs : p.file = q.file => p = q
    /\ \A a \in Attempts : \A j \in 1 .. Len(frame[a].chunks) :
          chunkPathOnRead(frame[a].chunks[j].hash) \in DOMAIN blobs

\* C19's case: two committed files with a chunk of the same digest, one blob
\* in the store for that digest, at the path the retrieval computes.
C19_Witness ==
    \E c, d \in fileChunks :
        /\ c.fileId # d.fileId
        /\ c.hash = d.hash
        /\ c.size = CHUNK_SIZE
        /\ Cardinality({p \in DOMAIN blobs : p.file = c.hash}) = 1
        /\ chunkPathOnRead(c.hash) \in DOMAIN blobs
        /\ chunk(c.id).ok /\ chunk(d.id).ok

\* The name ends in the extension, in any mix of upper and lower case, after
\* at least one other character.
endsWithAnyCase(name, extension) ==
    /\ Len(name) > Len(extension)
    /\ SubSeq(name, Len(name) - Len(extension) + 1, Len(name))
          \in caseVariants(extension)

\* C20: the format of every File row is derived from its filename and is one
\* of the three formats: PDF when the name ends in .pdf in any letter case,
\* EPUB when it ends in .epub in any letter case, and TXT for every other name
\* (no extension, another extension, a name that is only ".pdf").
C20_FormatDerivation ==
    \A f \in files :
        /\ f.format \in {"PDF", "EPUB", "TXT"}
        /\ f.format = "PDF" <=> endsWithAnyCase(f.filename, <<".", "p", "d", "f">>)
        /\ f.format = "EPUB"
              <=> endsWithAnyCase(f.filename, <<".", "e", "p", "u", "b">>)

\* C20's case: File rows were created for a name ending in .EpUb.
C20_Witness ==
    \E f \in files :
        /\ f.filename = <<"a", ".", "b", ".", "E", "p", "U", "b">>
        /\ f.format = "EPUB"
        /\ pc[f.id] = "Committed"

\* ------------------------------------------- properties: authentication

\* The request carried a token that is signed with the secret, has not
\* expired, names its user and whose user is an administrator.
carriesAdminToken(token) ==
    /\ token # NoToken
    /\ token.sig = "ok"
    /\ token.exp = 0 \/ token.exp > now
    /\ validateTokenStructure(token)
    /\ isUserAdmin(token.provider, token.username)

\* C21: every route of the /admin controller requires a valid authentication
\* token: no /admin handler runs for a request that does not carry a valid,
\* unexpired admin token.
C21_AdminRoutesRequireToken ==
    (http.endpoint = "admin" /\ http.next) => carriesAdminToken(http.token)

\* The names the configuration lists as administrators of a provider; no
\* list for a provider that is not known.
adminNamesOf(provider) ==
    CASE provider \in {"telegram", "telegram-widget"} ->
            split(processEnv.TELEGRAM_ADMIN_USERS, ",")
      [] provider = "github" -> split(processEnv.GITHUB_ADMIN_USERS, ",")
      [] OTHER -> <<>>

C22_UploadOnlyByAdmins ==
    \A a \in Attempts :
        ~ includes(TELEGRAM_ADMIN_USERS, from[a]) =>
            /\ ~ frame[a].staged
            /\ frame[a].rounds = 0
            /\ ~ \E f \in files : f.id = a

\* ------------------------------------------------ properties: the session

\* C24: every JWT issued by a login endpoint expires 24 hours after it is
\* issued: its exp equals the issue time plus 24 * 60 * 60 seconds.
C24_TokenExpiresAfterADay ==
    http.issued # NoToken => http.issued.exp = now + 24 * 60 * 60

\* C28: any token issued by a login endpoint is accepted by authMiddleware on
\* an immediately following request under the same configuration, including
\* when the admin list variable is unset or the user name is empty.
C28_IssuedTokenIsAccepted ==
    http.issued # NoToken => authMiddleware(http.issued).next

\* C29: the sliding session never outlives the token: an accepted request
\* refreshes the cookie's lifetime and leaves the token, and so its exp, as it
\* was; a request presenting a token whose exp is in the past is rejected,
\* the handler is not run and the auth cookie is cleared.
C29_SessionEndsWithToken ==
    (http.endpoint = "admin" /\ hasAuthMiddleware(http.handler)
        /\ http.token # NoToken) =>
        /\ http.next =>
              /\ cookies.auth_token = http.token
              /\ cookies.auth_expires > now
        /\ (http.token.exp # 0 /\ http.token.exp < now) =>
              /\ ~ http.next
              /\ http.status = "401"
              /\ cookies.auth_token = NoToken

\* The browser still held, through refreshes, the cookie of a token a login
\* issued and that has expired since; its request was refused and the cookie
\* is gone.
C29_Witness ==
    /\ http.endpoint = "admin"
    /\ hasAuthMiddleware(http.handler)
    /\ http.token.sig = "ok"
    /\ http.token.exp # 0
    /\ http.token.exp < now
    /\ ~ http.next
    /\ cookies.auth_token = NoToken

\* C30: a GitHub OAuth state value is single-use: the callback proceeds to the
\* token exchange only when the state parameter equals the stored state
\* cookie, and every callback, accepted or rejected, deletes the stored state,
\* so a second callback with the same state and no new login-url request is
\* rejected.
C30_StateIsSingleUse ==
    /\ [](http.endpoint = "github/callback" =>
            /\ http.exchanged => (http.state # 0 /\ http.state = http.stored)
            /\ ~ http.exchanged => (http.status = "400" /\ http.issued = NoToken)
            /\ cookies.github_oauth_state = 0)
    /\ [][((http.endpoint = "github/callback"
                /\ http'.endpoint = "github/callback") => ~ http'.exchanged)
           /\ (cookies'.github_oauth_state \notin {0, cookies.github_oauth_state}
                => http'.endpoint = "github/login-url")]_vars

\* A callback went through the exchange with the state of the login URL, and
\* the stored state is gone.
C30_Witness ==
    /\ http.endpoint = "github/callback"
    /\ http.exchanged
    /\ http.state \in OAuthStates
    /\ http.status = "200"
    /\ cookies.github_oauth_state = 0

\* ------------------------------------------ properties: the public book

\* The files bound to book b.
filesOf(rows, b) == {f \in rows : f.bookId = b}

\* Request r is an unbind (bookId null) and this step is its update.
unbindWrites(r) ==
    /\ upd[r].data.bookId = "null"
    /\ upd[r].pc = "Write"
    /\ upd'[r].pc = "Done"

\* Every request that arrived so far is an unbind.
onlyUnbinds ==
    \A q \in Requests : upd[q].pc = "Idle" \/ upd[q].data.bookId = "null"

\* C27: unbinding files from a public book can never leave that book with
\* zero files: under any interleaving of concurrent updateFileMeta requests
\* with bookId null on the files of one public book, at least one file stays
\* bound to it, and a rejected unbind leaves the file unchanged.
C27_PublicBookKeepsAFile ==
    [][\A r \in Requests :
          /\ (unbindWrites(r) /\ onlyUnbinds) =>
                \A b \in PublicBooks :
                    filesOf(files, b) # {} => filesOf(files', b) # {}
          /\ (upd[r].pc # "Done" /\ upd'[r].pc = "Done"
                /\ upd'[r].response = "rejected") => files' = files]_vars

\* ------------------------------------------- properties: the life cycle

\* The FileRecord of attempt a was created.
recordCreated(a) == frame[a].fileRecordId # 0

\* Committed: the record exists and the uploader was given its identity.
\* Failed: no catalog record was created.
isCommitted(a) ==
    recordCreated(a) /\ \E i \in DOMAIN replies[a] : replies[a][i] = "done"

isFailed(a) == ~ recordCreated(a)

\* The handler of every update that was received returns or throws.
C25_HandlerEnds ==
    \A a \in UploadAttempts : (pc[a] = "Reply1") ~> (pc[a] \in Ended)

\* C25: each ingestion attempt moves only forward through Received, Staged,
\* Processing, Persisting, Committed, may go to Failed from any non-terminal
\* state, never leaves Committed or Failed, and always eventually reaches
\* Committed or Failed; on Committed the uploader is given the identity of the
\* created FileRecord.  Here: an attempt whose handler ended is Committed or
\* Failed, and an attempt whose record was created never enters the failure
\* path.
C25_EndsCommittedOrFailed ==
    /\ [](\A a \in Attempts : pc[a] \in Ended => (isCommitted(a) \/ isFailed(a)))
    /\ [][\A a \in Attempts :
            recordCreated(a) => pc'[a] \notin {"ReplyErr", "Failed", "Crashed"}]_vars

\* C26: for every ingestion attempt the uploader gets exactly one final reply,
\* and it agrees with the catalog: a failure reply is sent if and only if no
\* FileRecord was created for the attempt, and a completion reply if and only
\* if one was created, also when sending a reply fails after the commit.
C26_FinalReplyAgreesWithCatalog ==
    \A a \in Attempts :
        pc[a] \in Ended =>
            LET sent(m) == \E i \in DOMAIN replies[a] : replies[a][i] = m
                finals == {i \in DOMAIN replies[a] :
                              replies[a][i] \in {"done", "error"}}
            IN  /\ Cardinality(finals) = 1
                /\ sent("error") <=> ~ recordCreated(a)
                /\ sent("done") <=> recordCreated(a)

====
